---- MODULE Spec2Model ----
(***************************************************************************)
(* Model of scripts/check_dead_code.py: the dead code and unused file      *)
(* detector (DeadCodeDetector and main).                                   *)
(*                                                                         *)
(* Representation.  A file or directory name is the sequence of its        *)
(* dot-separated pieces ("a.ts" is <<"a","ts">>, ".git" is <<"","git">>,   *)
(* "." is <<"","">>, ".." is <<"","","">>, the empty string is <<"">>).    *)
(* A path is the sequence of its names below the filesystem root "/"       *)
(* (<<>> is "/").  An import specifier is the sequence of the names        *)
(* between its slashes ("@/x/y" is <<"@">>, <<"x">>, <<"y">>; "/" is       *)
(* <<"">>, <<"">>).  An extension is written without its dot.              *)
(***************************************************************************)
EXTENDS Naturals, Sequences, FiniteSets, TLC

VARIABLES
    fs,            \* the disk: [files: path -> content, dirs: set of paths]
    root,          \* Path(args.root).resolve()
    pc,            \* position of main: start, constructed, scanned, built, exit, crashed
    extOrder,      \* iteration order of the set self.include_extensions in this process
    files,         \* self.files
    imports,       \* self.imports
    exports,       \* self.exports
    file_imports,  \* self.file_imports, as the relation {<<from, to>>}
    report,        \* the sets and summary of generate_report
    args,          \* the parsed --json / --detailed flags
    exit_code,     \* value returned by main (NoCode before it returns)
    steps,         \* the detector stages this run has executed
    runs,          \* number of runs of the script started so far
    prev,          \* outcome of the previous completed run on this tree
    read_failed,   \* the reads of this run that raised: {<<file, "imports" or "exports">>}
    added,         \* the files put on the disk between two runs
    todo,          \* the files the loop of build_dependency_graph has still to visit
    calls          \* how often the loop has called the resolver, per <<file, specifier>>

\* what only some of the specifications below record
aux == <<read_failed, added, todo, calls>>

vars == <<fs, root, pc, extOrder, files, imports, exports, file_imports,
          report, args, exit_code, steps, runs, prev, aux>>

----------------------------------------------------------------------------
(* Bounds of the model *)

MaxFiles == 4

NumExtOrders == 2

MaxRuns == 2

\* reads that may raise during one build
MaxReadFailures == 2

----------------------------------------------------------------------------
(* Names and paths (pathlib) *)

Dot == <<"", "">>

DotDot == <<"", "", "">>

EmptyName == <<"">>

Last(s) == s[Len(s)]

Front(s) == SubSeq(s, 1, Len(s) - 1)

\* PurePath.name: the last component, or the empty string for "/"
PathName(p) == IF p = <<>> THEN EmptyName ELSE Last(p)

\* PurePath.parent
Parent(p) == IF p = <<>> THEN p ELSE Front(p)

\* PurePath.suffix of a name: the piece after the last dot, when that dot is
\* neither the first nor the last character of the name; "" otherwise
Suffix(name) ==
    IF /\ Len(name) >= 2
       /\ Last(name) # ""
       /\ ~(Len(name) = 2 /\ name[1] = "")
    THEN Last(name) ELSE ""

\* PurePath.with_suffix on a non-empty name: the old suffix is replaced, or
\* the new one appended when there is none
WithSuffixName(name, ext) ==
    IF Suffix(name) = "" THEN Append(name, ext)
    ELSE [name EXCEPT ![Len(name)] = ext]

with_suffix(p, ext) == Append(Front(p), WithSuffixName(Last(p), ext))

IsPrefix(p, q) == Len(p) <= Len(q) /\ SubSeq(q, 1, Len(p)) = p

\* str.startswith on the specifier
StartsWithDot(spec) == Len(spec[1]) >= 2 /\ spec[1][1] = ""

StartsWithSlash(spec) == Len(spec) >= 2 /\ spec[1] = EmptyName

StartsWithAlias(spec) == Len(spec) >= 2 /\ spec[1] = <<"@">>

RECURSIVE Normalize(_, _)
\* Path.resolve() without symbolic links: "", "." dropped, ".." pops
Normalize(acc, comps) ==
    IF comps = <<>> THEN acc
    ELSE LET c == Head(comps) IN
         IF c = EmptyName \/ c = Dot THEN Normalize(acc, Tail(comps))
         ELSE IF c = DotDot
              THEN Normalize(Parent(acc), Tail(comps))
              ELSE Normalize(Append(acc, c), Tail(comps))

\* (base / import_str).resolve(): an absolute right operand replaces base
JoinResolve(base, comps) ==
    IF StartsWithSlash(comps) THEN Normalize(<<>>, comps)
    ELSE Normalize(base, comps)

----------------------------------------------------------------------------
(* The disk *)

IsFile(d, p) == p \in DOMAIN d.files

IsDir(d, p) == p \in d.dirs

Exists(d, p) == IsFile(d, p) \/ IsDir(d, p)

\* entries of directory dir, as os.walk lists them
SubDirs(d, dir) == {q \in d.dirs : Len(q) = Len(dir) + 1 /\ IsPrefix(dir, q)}

FilesIn(d, dir) == {q \in DOMAIN d.files : Len(q) = Len(dir) + 1 /\ IsPrefix(dir, q)}

----------------------------------------------------------------------------
(* DeadCodeDetector.__init__ : the fixed tables *)

exclude_dirs ==
    { <<"node_modules">>, <<"", "next">>, <<"dist">>, <<"build">>, <<"", "turbo">>,
      <<"", "git">>, <<"", "vercel">>, <<"output">>, <<"", "husky">>, <<"", "claude">>,
      <<"__pycache__">>, <<"", "pytest_cache">>, <<"coverage">>,
      <<"playwright-report">>, <<"", "playwright-mcp">> }

include_extensions == {"ts", "tsx", "js", "jsx", "mjs", "cjs"}

entry_patterns ==
    { <<"page", "tsx">>, <<"layout", "tsx">>, <<"route", "ts">>, <<"middleware", "ts">>,
      <<"app", "tsx">>, <<"app", "ts">>, <<"_app", "tsx">>, <<"_document", "tsx">>,
      <<"index", "ts">>, <<"index", "tsx">>, <<"index", "js">>, <<"index", "jsx">>,
      <<"main", "ts">>, <<"main", "tsx">>, <<"main", "js">>, <<"main", "jsx">>,
      <<"server", "ts">>, <<"server", "js">> }

config_files ==
    { <<"next", "config", "js">>, <<"next", "config", "mjs">>, <<"next", "config", "ts">>,
      <<"tailwind", "config", "js">>, <<"tailwind", "config", "ts">>,
      <<"postcss", "config", "js">>, <<"postcss", "config", "mjs">>,
      <<"vitest", "config", "ts">>, <<"vite", "config", "ts">>,
      <<"playwright", "config", "ts">>,
      <<"turbo", "json">>, <<"tsconfig", "json">>, <<"package", "json">>,
      <<"biome", "json">>, <<"convex", "json">> }

\* The order in which the set include_extensions is written in the source
SourceExtOrder == <<"ts", "tsx", "js", "jsx", "mjs", "cjs">>

Rotate(s, k) == [i \in 1..Len(s) |-> s[((i - 1 + k) % Len(s)) + 1]]

\* Iteration orders of the set include_extensions.  A Python set of strings
\* iterates in hash order, and string hashes are randomised per process, so
\* each process may see any order; the model draws from NumExtOrders of them.
ExtOrders == {Rotate(SourceExtOrder, k) : k \in 0..(NumExtOrders - 1)}

----------------------------------------------------------------------------
(* File contents.  A content is the set of the statements of the file that  *)
(* the patterns can see; a statement is [kind, spec, name], with spec the   *)
(* quoted specifier and name the captured text as a sequence of tokens.     *)

NoSpec == <<>>

NoName == <<>>

ImportFrom(s) == [kind |-> "import_from", spec |-> s, name |-> NoName]

ImportCall(s) == [kind |-> "import_call", spec |-> s, name |-> NoName]

Require(s) == [kind |-> "require", spec |-> s, name |-> NoName]

\* export * from "s"
ExportStarFrom(s) == [kind |-> "export_star_from", spec |-> s, name |-> NoName]

\* import "s": a side-effect import, which no pattern matches
ImportBare(s) == [kind |-> "import_bare", spec |-> s, name |-> NoName]

\* export const n (or function, class, let, var, interface, type, enum)
ExportDecl(n) == [kind |-> "export_decl", spec |-> NoSpec, name |-> <<n>>]

\* export { ... }: name is the text between the braces, token by token
ExportList(toks) == [kind |-> "export_list", spec |-> NoSpec, name |-> toks]

\* export default <expression>
ExportDefault == [kind |-> "export_default", spec |-> NoSpec, name |-> NoName]

\* module.exports = ..., which no pattern matches
ModuleExports == [kind |-> "module_exports", spec |-> NoSpec, name |-> NoName]

\* tokens of export-list text that are not identifiers (\w+)
Punctuation == {",", " ", "{", "}"}

\* the statement kinds whose text one of the four import_patterns matches
ImportKinds == {"import_from", "import_call", "require", "export_star_from"}

parse_imports(content) == {st.spec : st \in {x \in content : x.kind \in ImportKinds}}

\* what one export statement adds to the export set
ExportsOf(st) ==
    CASE st.kind = "export_decl" -> {st.name}
      [] st.kind = "export_list" ->
            IF \E i \in 1..Len(st.name) : st.name[i] = "{"
            THEN {<<st.name[i]>> : i \in {j \in 1..Len(st.name) : st.name[j] \notin Punctuation}}
            ELSE {st.name}
      [] st.kind = "export_default" -> {<<"default">>}
      [] OTHER -> {}

parse_exports(content) == UNION {ExportsOf(st) : st \in content}

----------------------------------------------------------------------------
(* DeadCodeDetector: predicates and scan *)

is_excluded_dir(path) == \E i \in 1..Len(path) : path[i] \in exclude_dirs

\* str.endswith("." + a + "." + b) on a file name
EndsWith2(name, a, b) ==
    Len(name) >= 3 /\ name[Len(name) - 1] = a /\ name[Len(name)] = b

is_entry_point(file_path) ==
    LET name == PathName(file_path) IN
    \/ name \in entry_patterns
    \/ name \in config_files
    \/ EndsWith2(name, "spec", "ts")
    \/ EndsWith2(name, "test", "ts")
    \/ EndsWith2(name, "spec", "tsx")
    \/ EndsWith2(name, "test", "tsx")
    \/ EndsWith2(name, "spec", "js")
    \/ EndsWith2(name, "test", "js")
    \/ \E i \in 1..Len(file_path) : file_path[i] = <<"convex">>

RECURSIVE Walk(_, _)
\* os.walk from dir, top down: excluded basenames are pruned from the
\* descent, and the files of a directory are skipped when is_excluded_dir
\* holds of the directory's whole path
Walk(d, dir) ==
    (IF is_excluded_dir(dir) THEN {}
     ELSE {f \in FilesIn(d, dir) : Suffix(PathName(f)) \in include_extensions})
    \cup UNION {Walk(d, sub) : sub \in {q \in SubDirs(d, dir) : PathName(q) \notin exclude_dirs}}

scan_files(d, root_dir) == IF IsDir(d, root_dir) THEN Walk(d, root_dir) ELSE {}

----------------------------------------------------------------------------
(* DeadCodeDetector.resolve_import_path *)

\* The result of a call: a path, None, or an uncaught exception
None == [kind |-> "none", path |-> <<>>]

Found(p) == [kind |-> "path", path |-> p]

Raises == [kind |-> "raise", path |-> <<>>]

\* Pairs <<s, t>> of name pieces of the model where t is a proper string
\* prefix of s (str.startswith cannot be computed on an atomic string)
ProperPrefixPairs ==
    {<<"website", "web">>, <<"administrator", "admin">>, <<"packages-old", "packages">>}

PieceStartsWith(piece, pre) == piece = pre \/ <<piece, pre>> \in ProperPrefixPairs

\* str(relative_path).startswith(a + "/" + b)
RelStartsWith2(rel, a, b) ==
    Len(rel) >= 2 /\ rel[1] = <<a>> /\ PieceStartsWith(rel[2][1], b)

\* str(relative_path).startswith(a)
RelStartsWith1(rel, a) == Len(rel) >= 1 /\ PieceStartsWith(rel[1][1], a)

\* from_file.relative_to(self.root_dir)
RelativeTo(p, root_dir) == SubSeq(p, Len(root_dir) + 1, Len(p))

\* parts.index('packages'), 0 when the value is not in the list
IndexOfPackages(p) ==
    LET idx == {i \in 1..Len(p) : p[i] = <<"packages">>}
    IN IF idx = {} THEN 0 ELSE CHOOSE i \in idx : \A j \in idx : i <= j

\* The base directory of an "@/" specifier, before the existence check
AliasBase(root_dir, from_file) ==
    LET rel == RelativeTo(from_file, root_dir) IN
    IF RelStartsWith2(rel, "apps", "web")
    THEN Found(root_dir \o << <<"apps">>, <<"web">>, <<"src">> >>)
    ELSE IF RelStartsWith2(rel, "apps", "admin")
    THEN Found(root_dir \o << <<"apps">>, <<"admin">>, <<"src">> >>)
    ELSE IF RelStartsWith1(rel, "packages")
    THEN LET k == IndexOfPackages(from_file) IN
         IF k = 0 THEN Raises
         ELSE IF k < Len(from_file)
              THEN Found(Append(SubSeq(from_file, 1, k + 1), <<"src">>))
              ELSE Found(Parent(from_file))
    ELSE Found(Append(root_dir, <<"src">>))

\* the first path of the sequence cands that exists, or None
FirstExisting(d, cands) ==
    LET idx == {i \in 1..Len(cands) : Exists(d, cands[i])}
    IN IF idx = {} THEN None
       ELSE Found(cands[CHOOSE i \in idx : \A j \in idx : i <= j])

\* a resolver that tries the exact path only
ResolveCandidate_ExactOnly(d, exts, candidate) ==
    IF IsFile(d, candidate) THEN Found(candidate) ELSE None

\* lines 193-209: exact file, then each extension, then index files
ResolveCandidate(d, exts, candidate) ==
    IF IsFile(d, candidate) THEN Found(candidate)
    ELSE IF candidate = <<>> THEN Raises  \* with_suffix: "/" has an empty name
    ELSE LET withExt == FirstExisting(d, [i \in 1..Len(exts) |-> with_suffix(candidate, exts[i])])
             index == FirstExisting(d, [i \in 1..Len(exts) |-> Append(candidate, <<"index", exts[i]>>)])
         IN IF withExt.kind = "path" THEN withExt
            ELSE IF IsDir(d, candidate) THEN index
            ELSE None

resolve_import_path(d, root_dir, exts, from_file, import_str) ==
    IF ~StartsWithDot(import_str) /\ ~StartsWithSlash(import_str)
       /\ ~StartsWithAlias(import_str)
    THEN None
    ELSE IF StartsWithAlias(import_str)
    THEN LET ab == AliasBase(root_dir, from_file) IN
         IF ab.kind = "raise" THEN Raises
         ELSE LET base == IF Exists(d, ab.path) THEN ab.path ELSE Parent(from_file)
              IN ResolveCandidate(d, exts, JoinResolve(base, Tail(import_str)))
    ELSE ResolveCandidate(d, exts, JoinResolve(Parent(from_file), import_str))

----------------------------------------------------------------------------
(* DeadCodeDetector.build_dependency_graph and the classifier *)

\* what the loop body computes for one file
ImportsOfFile(d, f) == parse_imports(d.files[f])

ExportsOfFile(d, f) == parse_exports(d.files[f])

\* a build that forgets the membership test of line 225
EdgeKept_AnyPath(fileset, r) == r.kind = "path"

\* line 225: an edge is kept when the resolver returned a scanned file
EdgeKept(fileset, r) == r.kind = "path" /\ r.path \in fileset

EdgesOfFile(d, root_dir, exts, fileset, f) ==
    {<<f, r.path>> : r \in {x \in {resolve_import_path(d, root_dir, exts, f, s) :
                                       s \in ImportsOfFile(d, f)} : EdgeKept(fileset, x)}}

\* lines 117-129: parse_imports with its try/except; a read that raises
\* leaves the set empty
ReadImports(d, f, failed) ==
    IF <<f, "imports">> \in failed THEN {} ELSE parse_imports(d.files[f])

\* lines 133-153: parse_exports with its try/except, a second read of the file
ReadExports(d, f, failed) ==
    IF <<f, "exports">> \in failed THEN {} ELSE parse_exports(d.files[f])

\* lines 223-226 for the import set imps of file f
EdgesFrom(d, root_dir, exts, fileset, f, imps) ==
    {<<f, r.path>> : r \in {x \in {resolve_import_path(d, root_dir, exts, f, s) : s \in imps} :
                                EdgeKept(fileset, x)}}

\* some call of the resolver in the loop raises
BuildRaises(d, root_dir, exts, fileset) ==
    \E f \in fileset : \E s \in ImportsOfFile(d, f) :
        resolve_import_path(d, root_dir, exts, f, s).kind = "raise"

imported_files(edges) == {e[2] : e \in edges}

\* a classifier that counts only imports by other files
find_unused_files_OtherOnly(fileset, edges) ==
    {f \in fileset : f \notin {e[2] : e \in {x \in edges : x[1] # f}} /\ ~is_entry_point(f)}

\* a classifier that reports a file when either condition holds
find_unused_files_Or(fileset, edges) ==
    {f \in fileset : f \notin imported_files(edges) \/ ~is_entry_point(f)}

find_unused_files(fileset, edges) ==
    {f \in fileset : f \notin imported_files(edges) /\ ~is_entry_point(f)}

\* a classifier that forgets the entry-point exemption of line 246
find_orphaned_files_NoExempt(fileset, imp, exp) ==
    {f \in fileset : imp[f] = {} /\ exp[f] = {}}

find_orphaned_files(fileset, imp, exp) ==
    {f \in fileset : imp[f] = {} /\ exp[f] = {} /\ ~is_entry_point(f)}

\* a finder that does not ask for imports
find_files_with_no_exports_AnyImports(fileset, imp, exp) ==
    {f \in fileset : exp[f] = {} /\ ~is_entry_point(f)}

find_files_with_no_exports(fileset, imp, exp) ==
    {f \in fileset : imp[f] # {} /\ exp[f] = {} /\ ~is_entry_point(f)}

generate_report(fileset, imp, exp, edges) ==
    LET unused == find_unused_files(fileset, edges)
        orphaned == find_orphaned_files(fileset, imp, exp)
        noexp == find_files_with_no_exports(fileset, imp, exp)
    IN [ total_files |-> Cardinality(fileset),
         n_unused |-> Cardinality(unused),
         n_orphaned |-> Cardinality(orphaned),
         n_no_exports |-> Cardinality(noexp),
         unused_files |-> unused,
         orphaned_files |-> orphaned,
         files_with_no_exports |-> noexp ]

\* an exit code that also counts the files with no exports
ExitCodeOf_CountsNoExports(rep) ==
    IF rep.n_unused > 0 \/ rep.n_orphaned > 0 \/ rep.n_no_exports > 0 THEN 1 ELSE 0

\* lines 419-422 of main
ExitCodeOf(rep) == IF rep.n_unused > 0 \/ rep.n_orphaned > 0 THEN 1 ELSE 0

----------------------------------------------------------------------------
(* The file trees of the model *)

\* specifiers used by the files of the model
S_b == << Dot, <<"b">> >>                                  \* "./b"

S_a == << Dot, <<"a">> >>                                  \* "./a"

S_c == << Dot, <<"c">> >>                                  \* "./c"

S_page == << Dot, <<"page">> >>                            \* "./page"

S_foo == << Dot, <<"foo">> >>                              \* "./foo"

S_missing == << Dot, <<"missing">> >>                      \* "./missing"

S_react == << <<"react">> >>                               \* "react"

S_nm_x == << Dot, <<"node_modules">>, <<"x">> >>           \* "./node_modules/x"

S_notes == << Dot, <<"notes", "md">> >>                    \* "./notes.md"

S_outside == << DotDot, <<"outside">> >>                   \* "../outside"

S_slash == << EmptyName, EmptyName >>                      \* "/"

S_list == << Dot, <<"list">> >>                            \* "./list"

S_user_service == << Dot, <<"user", "service">> >>         \* "./user.service"

S_lib == << Dot, <<"lib">> >>                              \* "./lib"

S_foo_config == << Dot, <<"foo", "config">> >>             \* "./foo.config"

S_alias_helpers == << <<"@">>, <<"utils">>, <<"helpers">> >>   \* "@/utils/helpers"

\* marks a candidate file that is not on the disk
Absent == {[kind |-> "absent", spec |-> NoSpec, name |-> NoName]}

\* The contents each candidate file may have.  The field names stand for
\* a.ts, b.ts, c.ts, foo.ts, foo.js, page.tsx, node_modules/x.ts and notes.md
\* in the project directory, and outside.ts beside the project directory.
Menu ==
    [ a_ts : { Absent,
               {ImportFrom(S_b)},
               {ImportFrom(S_b), ExportDecl("a")},
               {Require(S_c), ImportFrom(S_foo), ImportFrom(S_react), ImportCall(S_missing)} },
      b_ts : { Absent,
               {ExportDecl("x")},
               {ImportFrom(S_a), ExportDecl("b")},
               {Require(S_b), Require(S_page)} },
      c_ts : { Absent, {}, {ImportCall(S_slash)} },
      foo_ts : { Absent, {ExportDefault} },
      foo_js : { Absent, {ModuleExports} },
      page_tsx : { Absent, {},
                   {ImportFrom(S_nm_x), ImportFrom(S_notes), ExportStarFrom(S_outside),
                    ImportFrom(S_react), ImportCall(S_missing), ImportBare(S_a)} },
      nm_x_ts : { Absent, {ExportDecl("x")} },
      notes_md : { Absent, {} },
      outside_ts : { Absent, {ExportDecl("o")} } ]

CandidateKeys ==
    {"a_ts", "b_ts", "c_ts", "foo_ts", "foo_js", "page_tsx", "nm_x_ts", "notes_md", "outside_ts",
     "foo_test_jsx", "foo_spec_mjs", "bar_test_ts", "convex_api_ts", "index_ts", "list_ts",
     "user_ts", "user_service_ts", "lib_ts", "lib_index_ts", "foo_config_ts",
     "web_main_ts", "web_helpers_ts", "site_main_ts", "src_helpers_ts", "old_main_ts",
     "pkg_main_ts", "pkg_helpers_ts", "utils_helpers_ts"}

\* where the project directory lives
RootParents == { << <<"home">> >>, << <<"build">> >> }

ProjDir(parent) == Append(parent, <<"proj">>)

\* the path of each candidate file
CandidatePath(parent, k) ==
    CASE k = "a_ts" -> Append(ProjDir(parent), <<"a", "ts">>)
      [] k = "b_ts" -> Append(ProjDir(parent), <<"b", "ts">>)
      [] k = "c_ts" -> Append(ProjDir(parent), <<"c", "ts">>)
      [] k = "foo_ts" -> Append(ProjDir(parent), <<"foo", "ts">>)
      [] k = "foo_js" -> Append(ProjDir(parent), <<"foo", "js">>)
      [] k = "page_tsx" -> Append(ProjDir(parent), <<"page", "tsx">>)
      [] k = "nm_x_ts" -> ProjDir(parent) \o << <<"node_modules">>, <<"x", "ts">> >>
      [] k = "notes_md" -> Append(ProjDir(parent), <<"notes", "md">>)
      [] k = "outside_ts" -> Append(parent, <<"outside", "ts">>)
      [] k = "foo_test_jsx" -> Append(ProjDir(parent), <<"foo", "test", "jsx">>)
      [] k = "foo_spec_mjs" -> Append(ProjDir(parent), <<"foo", "spec", "mjs">>)
      [] k = "bar_test_ts" -> Append(ProjDir(parent), <<"bar", "test", "ts">>)
      [] k = "convex_api_ts" -> ProjDir(parent) \o << <<"convex">>, <<"api", "ts">> >>
      [] k = "index_ts" -> Append(ProjDir(parent), <<"index", "ts">>)
      [] k = "list_ts" -> Append(ProjDir(parent), <<"list", "ts">>)
      [] k = "user_ts" -> Append(ProjDir(parent), <<"user", "ts">>)
      [] k = "user_service_ts" -> Append(ProjDir(parent), <<"user", "service", "ts">>)
      [] k = "lib_ts" -> Append(ProjDir(parent), <<"lib", "ts">>)
      [] k = "lib_index_ts" -> ProjDir(parent) \o << <<"lib">>, <<"index", "ts">> >>
      [] k = "foo_config_ts" -> Append(ProjDir(parent), <<"foo", "config", "ts">>)
      [] k = "web_main_ts" ->
            ProjDir(parent) \o << <<"apps">>, <<"web">>, <<"main", "ts">> >>
      [] k = "web_helpers_ts" ->
            ProjDir(parent) \o << <<"apps">>, <<"web">>, <<"src">>, <<"utils">>, <<"helpers", "ts">> >>
      [] k = "site_main_ts" ->
            ProjDir(parent) \o << <<"apps">>, <<"website">>, <<"main", "ts">> >>
      [] k = "src_helpers_ts" ->
            ProjDir(parent) \o << <<"src">>, <<"utils">>, <<"helpers", "ts">> >>
      [] k = "old_main_ts" ->
            ProjDir(parent) \o << <<"packages-old">>, <<"main", "ts">> >>
      [] k = "pkg_main_ts" ->
            ProjDir(parent) \o << <<"packages">>, <<"ui">>, <<"main", "ts">> >>
      [] k = "pkg_helpers_ts" ->
            ProjDir(parent) \o << <<"packages">>, <<"ui">>, <<"src">>, <<"utils">>, <<"helpers", "ts">> >>
      [] k = "utils_helpers_ts" ->
            ProjDir(parent) \o << <<"utils">>, <<"helpers", "ts">> >>

Prefixes(p) == {SubSeq(p, 1, n) : n \in 0..(Len(p) - 1)}

\* the disk holding the chosen files: the project directory always exists
MakeDisk(parent, choice) ==
    LET present == {k \in DOMAIN choice : choice[k] # Absent}
        paths == {CandidatePath(parent, k) : k \in present}
        keyOf(p) == CHOOSE k \in present : CandidatePath(parent, k) = p
    IN [ files |-> [p \in paths |-> choice[keyOf(p)]],
         dirs |-> Prefixes(Append(ProjDir(parent), <<"x">>))
                    \cup UNION {Prefixes(p) : p \in paths} ]

\* the choices of a menu that put at most MaxFiles files on the disk
ChoicesOf(menu) ==
    {c \in menu : Cardinality({k \in DOMAIN c : c[k] # Absent}) <= MaxFiles}

Choices == ChoicesOf(Menu)

----------------------------------------------------------------------------
(* The program: main, run MaxRuns times on an unchanged tree *)

NoReport == generate_report({}, <<>>, <<>>, {})

NoPrev == [valid |-> FALSE, edges |-> {}, report |-> NoReport]

NoArgs == [json |-> FALSE, detailed |-> FALSE]

\* the state of a process that has not constructed its detector yet
Fresh ==
    /\ extOrder = SourceExtOrder
    /\ files = {}
    /\ imports = <<>>
    /\ exports = <<>>
    /\ file_imports = {}
    /\ report = NoReport
    /\ args = NoArgs
    /\ exit_code = 0
    /\ steps = {}

\* main starts on one of the disks of choices
InitWith(choices) ==
    /\ \E parent \in RootParents : \E c \in choices :
          /\ fs = MakeDisk(parent, c)
          /\ root \in {ProjDir(parent), Append(parent, <<"gone">>)}
    /\ pc = "start"
    /\ Fresh
    /\ runs = 1
    /\ prev = NoPrev
    /\ read_failed = {}
    /\ added = {}
    /\ todo = {}
    /\ calls = <<>>

Init == InitWith(Choices)

\* a main that reports the missing root and goes on
Main_RootNotFound_NoReturn ==
    /\ pc = "start"
    /\ ~Exists(fs, root)
    /\ extOrder' \in ExtOrders
    /\ pc' = "constructed"
    /\ UNCHANGED <<fs, root, files, imports, exports, file_imports,
                   report, args, exit_code, steps, runs, prev, aux>>

\* lines 387-389: the root does not exist
Main_RootNotFound ==
    /\ pc = "start"
    /\ ~Exists(fs, root)
    /\ exit_code' = 1
    /\ pc' = "exit"
    /\ UNCHANGED <<fs, root, extOrder, files, imports, exports, file_imports,
                   report, args, steps, runs, prev, aux>>

\* line 392: DeadCodeDetector(root_dir); the set's iteration order is fixed here
Detector_Init ==
    /\ pc = "start"
    /\ Exists(fs, root)
    /\ extOrder' \in ExtOrders
    /\ files' = {}
    /\ imports' = <<>>
    /\ exports' = <<>>
    /\ file_imports' = {}
    /\ pc' = "constructed"
    /\ UNCHANGED <<fs, root, report, args, exit_code, steps, runs, prev, aux>>

\* line 393
ScanFiles ==
    /\ pc = "constructed"
    /\ files' = files \cup scan_files(fs, root)
    /\ steps' = steps \cup {"scan"}
    /\ pc' = "scanned"
    /\ UNCHANGED <<fs, root, extOrder, imports, exports, file_imports,
                   report, args, exit_code, runs, prev, aux>>

\* line 394, when no call of the resolver raises
BuildDependencyGraph ==
    /\ pc = "scanned"
    /\ ~BuildRaises(fs, root, extOrder, files)
    /\ imports' = [f \in files |-> ImportsOfFile(fs, f)]
    /\ exports' = [f \in files |-> ExportsOfFile(fs, f)]
    /\ file_imports' = UNION {EdgesOfFile(fs, root, extOrder, files, f) : f \in files}
    /\ steps' = steps \cup {"build"}
    /\ pc' = "built"
    /\ UNCHANGED <<fs, root, extOrder, files, report, args, exit_code, runs, prev, aux>>

\* line 394, when a call of the resolver raises: the exception is caught
\* nowhere, the process ends with a traceback and main returns nothing
BuildDependencyGraph_Raises ==
    /\ pc = "scanned"
    /\ BuildRaises(fs, root, extOrder, files)
    /\ steps' = steps \cup {"build"}
    /\ pc' = "crashed"
    /\ UNCHANGED <<fs, root, extOrder, files, imports, exports, file_imports,
                   report, args, exit_code, runs, prev, aux>>

\* lines 395-422: the report, its output and the exit code.  The flags of
\* line 382 are first read here, so the model draws them here.
ReportAndReturn ==
    /\ pc = "built"
    /\ \E j \in BOOLEAN : \E dt \in BOOLEAN : args' = [json |-> j, detailed |-> dt]
    /\ report' = generate_report(files, imports, exports, file_imports)
    /\ exit_code' = ExitCodeOf(report')
    /\ steps' = steps \cup {"report"}
    /\ pc' = "exit"
    /\ UNCHANGED <<fs, root, extOrder, files, imports, exports, file_imports, runs, prev, aux>>

\* the script is started again on the unchanged tree, in a new process
Rerun ==
    /\ pc = "exit"
    /\ "report" \in steps
    /\ runs < MaxRuns
    /\ prev' = [valid |-> TRUE, edges |-> file_imports, report |-> report]
    /\ runs' = runs + 1
    /\ pc' = "start"
    /\ extOrder' = SourceExtOrder
    /\ files' = {}
    /\ imports' = <<>>
    /\ exports' = <<>>
    /\ file_imports' = {}
    /\ report' = NoReport
    /\ args' = NoArgs
    /\ exit_code' = 0
    /\ steps' = {}
    /\ UNCHANGED <<fs, root, aux>>

\* line 394 when reads of the files may raise (a file that is unreadable, or
\* that is removed or replaced between the two reads of lines 216 and 217)
BuildDependencyGraph_IO ==
    /\ pc = "scanned"
    /\ \E failed \in SUBSET (files \X {"imports", "exports"}) :
          /\ Cardinality(failed) <= MaxReadFailures
          /\ \A f \in files : \A sp \in ReadImports(fs, f, failed) :
                 resolve_import_path(fs, root, extOrder, f, sp).kind # "raise"
          /\ read_failed' = failed
          /\ imports' = [f \in files |-> ReadImports(fs, f, failed)]
          /\ exports' = [f \in files |-> ReadExports(fs, f, failed)]
          /\ file_imports' = UNION {EdgesFrom(fs, root, extOrder, files, f,
                                               ReadImports(fs, f, failed)) : f \in files}
    /\ steps' = steps \cup {"build"}
    /\ pc' = "built"
    /\ UNCHANGED <<fs, root, extOrder, files, report, args, exit_code, runs, prev,
                   added, todo, calls>>

Next ==
    \/ Main_RootNotFound
    \/ Detector_Init
    \/ ScanFiles
    \/ BuildDependencyGraph
    \/ BuildDependencyGraph_Raises
    \/ ReportAndReturn
    \/ Rerun

Spec == Init /\ [][Next]_vars

\* Between two runs a file that is not on the disk is created, with its
\* directories: addable gives the contents each candidate file may get
AddFile(addable) ==
    /\ pc = "exit"
    /\ "report" \in steps
    /\ runs < MaxRuns
    /\ added = {}
    /\ \E k \in DOMAIN addable : \E content \in addable[k] \ {Absent} :
          LET g == CandidatePath(Front(root), k) IN
          /\ g \notin DOMAIN fs.files
          /\ fs' = [ files |-> [p \in DOMAIN fs.files \cup {g} |->
                                   IF p = g THEN content ELSE fs.files[p]],
                     dirs |-> fs.dirs \cup Prefixes(g) ]
          /\ added' = {g}
    /\ UNCHANGED <<root, pc, extOrder, files, imports, exports, file_imports,
                   report, args, exit_code, steps, runs, prev, read_failed, todo, calls>>

\* The contents of the files of the resolver's trees: a.ts, user.ts,
\* user.service.ts, lib.ts, lib/index.ts and foo.config.ts
FilesResolve ==
    [ a_ts |-> { Absent,
                 {ImportFrom(S_user_service)},
                 {ImportFrom(S_lib)},
                 {ImportFrom(S_lib), ImportFrom(S_foo_config)},
                 {ImportCall(S_slash)} },
      user_ts |-> { Absent, {ExportDecl("u")} },
      user_service_ts |-> { Absent, {ExportDecl("s")} },
      lib_ts |-> { Absent, {ExportDecl("l")} },
      lib_index_ts |-> { Absent, {ExportDecl("i")} },
      foo_config_ts |-> { Absent, {ExportDefault} } ]

MenuResolve ==
    [ a_ts : FilesResolve.a_ts,
      user_ts : FilesResolve.user_ts,
      user_service_ts : FilesResolve.user_service_ts,
      lib_ts : FilesResolve.lib_ts,
      lib_index_ts : FilesResolve.lib_index_ts,
      foo_config_ts : FilesResolve.foo_config_ts ]

InitResolve == InitWith(ChoicesOf(MenuResolve))

NextResolve ==
    \/ Main_RootNotFound
    \/ Detector_Init
    \/ ScanFiles
    \/ BuildDependencyGraph
    \/ BuildDependencyGraph_Raises
    \/ ReportAndReturn
    \/ AddFile(FilesResolve)
    \/ Rerun

\* a run of main, a file created or not, and a second run
SpecResolve == InitResolve /\ [][NextResolve]_vars

\* a loop that puts the targets of the edges of f back among the files to visit
RestOfLoop_FollowsTargets(rest, f, edges) == (rest \ {f}) \cup {e[2] : e \in edges}

\* line 215: the files still to visit once f has had its turn
RestOfLoop(rest, f, edges) == rest \ {f}

\* the count of resolver calls, one more for each pair of new
CountCalls(count, new) ==
    [p \in DOMAIN count \cup new |->
        (IF p \in DOMAIN count THEN count[p] ELSE 0) + (IF p \in new THEN 1 ELSE 0)]

\* line 215: the for statement starts on the scanned set
BuildLoop_Enter ==
    /\ pc = "scanned"
    /\ todo' = files
    /\ pc' = "building"
    /\ UNCHANGED <<fs, root, extOrder, files, imports, exports, file_imports,
                   report, args, exit_code, steps, runs, prev, read_failed, added, calls>>

\* lines 216-226 for one file, taken in any order (the iteration order of a
\* set), when no call of the resolver raises
BuildLoop_File ==
    /\ pc = "building"
    /\ \E f \in todo :
          LET imps == ImportsOfFile(fs, f)
              edges == EdgesOfFile(fs, root, extOrder, files, f)
          IN /\ \A sp \in imps : resolve_import_path(fs, root, extOrder, f, sp).kind # "raise"
             /\ imports' = [g \in DOMAIN imports \cup {f} |->
                               IF g = f THEN imps ELSE imports[g]]
             /\ exports' = [g \in DOMAIN exports \cup {f} |->
                               IF g = f THEN ExportsOfFile(fs, f) ELSE exports[g]]
             /\ file_imports' = file_imports \cup edges
             /\ calls' = CountCalls(calls, {<<f, sp>> : sp \in imps})
             /\ todo' = RestOfLoop(todo, f, edges)
    /\ UNCHANGED <<fs, root, pc, extOrder, files, report, args, exit_code, steps,
                   runs, prev, read_failed, added>>

\* lines 216-226 for one file when a call of the resolver raises: the
\* specifiers taken before it (any of those that do not raise) have had
\* their call, the exception ends the loop and the process
BuildLoop_File_Raises ==
    /\ pc = "building"
    /\ \E f \in todo :
          LET imps == ImportsOfFile(fs, f)
              bad == {sp \in imps : resolve_import_path(fs, root, extOrder, f, sp).kind = "raise"}
          IN \E sp \in bad : \E before \in SUBSET (imps \ bad) :
                /\ imports' = [g \in DOMAIN imports \cup {f} |->
                                  IF g = f THEN imps ELSE imports[g]]
                /\ exports' = [g \in DOMAIN exports \cup {f} |->
                                  IF g = f THEN ExportsOfFile(fs, f) ELSE exports[g]]
                /\ file_imports' = file_imports \cup
                                       EdgesFrom(fs, root, extOrder, files, f, before)
                /\ calls' = CountCalls(calls, {<<f, x>> : x \in before \cup {sp}})
    /\ steps' = steps \cup {"build"}
    /\ pc' = "crashed"
    /\ UNCHANGED <<fs, root, extOrder, files, report, args, exit_code, runs, prev,
                   read_failed, added, todo>>

\* line 215: the set is exhausted and build_dependency_graph returns
BuildLoop_Exit ==
    /\ pc = "building"
    /\ todo = {}
    /\ steps' = steps \cup {"build"}
    /\ pc' = "built"
    /\ UNCHANGED <<fs, root, extOrder, files, imports, exports, file_imports,
                   report, args, exit_code, runs, prev, aux>>

\* The trees of the stepwise build: a.ts may import itself, b.ts and "/",
\* b.ts may import a.ts, c.ts may require itself
MenuSteps ==
    [ a_ts : { Absent,
               {ImportFrom(S_b)},
               {ImportFrom(S_a), ImportFrom(S_b), ImportFrom(S_react)},
               {ImportCall(S_slash), ImportFrom(S_b)} },
      b_ts : { Absent, {ExportDecl("x")}, {ImportFrom(S_a), ExportDecl("b")} },
      c_ts : { Absent, {}, {Require(S_c)} },
      page_tsx : { Absent, {ImportFrom(S_a), ImportCall(S_missing)} } ]

InitSteps == InitWith(ChoicesOf(MenuSteps))

NextSteps ==
    \/ Main_RootNotFound
    \/ Detector_Init
    \/ ScanFiles
    \/ BuildLoop_Enter
    \/ BuildLoop_File
    \/ BuildLoop_File_Raises
    \/ BuildLoop_Exit
    \/ ReportAndReturn

\* one run of main with the loop of build_dependency_graph taken file by
\* file; the process keeps running until it returns or dies
SpecSteps == InitSteps /\ [][NextSteps]_vars /\ WF_vars(NextSteps)

\* The trees of the "@/" alias: index.ts, apps/web/main.ts,
\* apps/website/main.ts, packages/ui/main.ts and packages-old/main.ts import
\* "@/utils/helpers"; utils/helpers.ts may exist under src, apps/web/src,
\* packages/ui/src and the root
MenuAlias ==
    [ index_ts : { Absent, {ImportFrom(S_alias_helpers)} },
      web_main_ts : { Absent, {ImportFrom(S_alias_helpers)} },
      site_main_ts : { Absent, {ImportFrom(S_alias_helpers)} },
      pkg_main_ts : { Absent, {ImportFrom(S_alias_helpers)} },
      old_main_ts : { Absent, {ImportFrom(S_alias_helpers)} },
      src_helpers_ts : { Absent, {ExportDecl("h")} },
      web_helpers_ts : { Absent, {ExportDecl("h")} },
      pkg_helpers_ts : { Absent, {ExportDecl("h")} },
      utils_helpers_ts : { Absent, {ExportDecl("h")} } ]

InitAlias == InitWith(ChoicesOf(MenuAlias))

NextAlias ==
    \/ Main_RootNotFound
    \/ Detector_Init
    \/ ScanFiles
    \/ BuildDependencyGraph
    \/ BuildDependencyGraph_Raises
    \/ ReportAndReturn

\* one run of main over the trees of MenuAlias
SpecAlias == InitAlias /\ [][NextAlias]_vars

\* The trees of test files, entry points and export lists: foo.test.jsx,
\* foo.spec.mjs, bar.test.ts, convex/api.ts, index.ts and list.ts, the last
\* with `export { a, b as c }`, `export { a }` or `export const a`
MenuExtract ==
    [ foo_test_jsx : { Absent, {}, {ImportFrom(S_list)} },
      foo_spec_mjs : { Absent, {} },
      bar_test_ts : { Absent, {} },
      convex_api_ts : { Absent, {ExportDecl("api")} },
      index_ts : { Absent, {ImportFrom(S_list)} },
      list_ts : { Absent,
                  {ExportList(<<" ", "a", ",", " ", "b", " ", "as", " ", "c", " ">>)},
                  {ExportList(<<"a">>)},
                  {ExportDecl("a")} } ]

InitExtract == InitWith(ChoicesOf(MenuExtract))

NextExtract ==
    \/ Main_RootNotFound
    \/ Detector_Init
    \/ ScanFiles
    \/ BuildDependencyGraph
    \/ ReportAndReturn

\* one run of main over the trees of MenuExtract
SpecExtract == InitExtract /\ [][NextExtract]_vars

\* The trees of the runs in which reads may fail
MenuIO ==
    [ a_ts : { Absent, {ImportFrom(S_b)}, {ImportFrom(S_b), ExportDecl("a")} },
      b_ts : { Absent, {ExportDecl("x")} },
      c_ts : { Absent, {} },
      page_tsx : { Absent, {ImportFrom(S_a)} } ]

InitIO == InitWith(ChoicesOf(MenuIO))

NextIO ==
    \/ Main_RootNotFound
    \/ Detector_Init
    \/ ScanFiles
    \/ BuildDependencyGraph_IO
    \/ ReportAndReturn

\* one run of main in which reads may fail
SpecIO == InitIO /\ [][NextIO]_vars

----------------------------------------------------------------------------
(* The claims *)

\* main has returned after a complete analysis
Reported == pc = "exit" /\ "report" \in steps

\* the graph of this run has been built
Built == pc \in {"built", "exit"} /\ "build" \in steps

\* a file of the project directory
InRoot(name) == Append(root, name)

HasIncomingEdge(f) == \E e \in file_imports : e[2] = f

\* C1 (as claimed): every orphaned file is also unused, also when a file
\* with no imports and no exports is the target of an edge.
C1_OrphanedSubsetUnused ==
    Reported => report.orphaned_files \subseteq report.unused_files

C3_EntryPointsExempt ==
    Reported => \A f \in files : is_entry_point(f) =>
                    f \notin report.unused_files /\ f \notin report.orphaned_files

\* C3 witness: scenario D, page.tsx with no imports and no exports in a graph
\* with no edges, beside a file that is reported
C3_Witness ==
    /\ Reported
    /\ InRoot(<<"page", "tsx">>) \in files
    /\ imports[InRoot(<<"page", "tsx">>)] = {}
    /\ exports[InRoot(<<"page", "tsx">>)] = {}
    /\ file_imports = {}
    /\ report.orphaned_files # {}

\* scenario E: a.ts and b.ts import each other, both export something, and no
\* other file imports either
ScenarioE ==
    LET a == InRoot(<<"a", "ts">>)
        b == InRoot(<<"b", "ts">>)
    IN /\ Reported
       /\ {a, b} \subseteq files
       /\ S_b \in imports[a] /\ S_a \in imports[b]
       /\ <<a, b>> \in file_imports /\ <<b, a>> \in file_imports
       /\ exports[a] # {} /\ exports[b] # {}
       /\ \A e \in file_imports : e[2] \in {a, b} => e[1] \in {a, b}

\* C4 (as claimed): in scenario E both a.ts and b.ts are in the unused set and
\* neither is in the orphaned set.
C4_CyclicPairUnused ==
    ScenarioE =>
        /\ {InRoot(<<"a", "ts">>), InRoot(<<"b", "ts">>)} \subseteq report.unused_files
        /\ {InRoot(<<"a", "ts">>), InRoot(<<"b", "ts">>)} \cap report.orphaned_files = {}

\* C4 (amended): in scenario E neither a.ts nor b.ts is in the unused set, and
\* neither is in the orphaned set: an edge from inside the cycle makes a file used.
C4_CyclicPairUsed ==
    ScenarioE =>
        /\ {InRoot(<<"a", "ts">>), InRoot(<<"b", "ts">>)} \cap report.unused_files = {}
        /\ {InRoot(<<"a", "ts">>), InRoot(<<"b", "ts">>)} \cap report.orphaned_files = {}

\* C4 witness: a finished run on a tree holding the cyclic pair
C4_Witness == ScenarioE /\ report.total_files >= 2

\* scenario A: the tree holds exactly a.ts importing "./b", b.ts exporting x
\* and importing nothing, and c.ts with no imports and no exports
ScenarioA ==
    LET a == InRoot(<<"a", "ts">>)
        b == InRoot(<<"b", "ts">>)
        c == InRoot(<<"c", "ts">>)
    IN /\ Reported
       /\ DOMAIN fs.files = {a, b, c}
       /\ files = {a, b, c}
       /\ imports[a] = {S_b}
       /\ imports[b] = {} /\ exports[b] = {<<"x">>}
       /\ imports[c] = {} /\ exports[c] = {}

\* C5 (as claimed): in scenario A the pipeline yields unused = {c.ts} and
\* orphaned = {c.ts}.
C5_ScenarioA_OnlyC ==
    ScenarioA =>
        /\ report.unused_files = {InRoot(<<"c", "ts">>)}
        /\ report.orphaned_files = {InRoot(<<"c", "ts">>)}

\* C5 (amended): in scenario A the pipeline yields unused = {a.ts, c.ts}, since
\* nothing imports a.ts, and orphaned = {c.ts}; b.ts is in neither.
C5_ScenarioA_AandC ==
    ScenarioA =>
        /\ report.unused_files = {InRoot(<<"a", "ts">>), InRoot(<<"c", "ts">>)}
        /\ report.orphaned_files = {InRoot(<<"c", "ts">>)}
        /\ file_imports = {<<InRoot(<<"a", "ts">>), InRoot(<<"b", "ts">>)>>}

\* C5 witness: a finished run on the tree of scenario A
C5_Witness == ScenarioA /\ report.total_files = 3

\* C6: when the root exists and main returns, the exit code is 0 exactly when
\* the unused and the orphaned sets are both empty and 1 otherwise, whatever
\* the files with no exports and the --json and --detailed flags are.
C6_ExitCodeIffClean ==
    Reported =>
        /\ exit_code \in {0, 1}
        /\ exit_code = 0 <=> (report.unused_files = {} /\ report.orphaned_files = {})

\* C6 witness: a clean run with a file that has no exports, under both flags
C6_Witness ==
    /\ Reported
    /\ exit_code = 0
    /\ report.files_with_no_exports # {}
    /\ args.json /\ args.detailed

\* main has returned because the root does not exist
RootNotFoundExit == pc = "exit" /\ ~Exists(fs, root)

\* C7 (as claimed): with a missing root main scans nothing, builds nothing and
\* returns a code distinct from the clean code 0 and the dead-code code 1.
C7_RootNotFoundDistinctCode ==
    RootNotFoundExit => steps = {} /\ exit_code \notin {0, 1}

\* C7 (amended): with a missing root main scans nothing, builds nothing and
\* returns 1, which differs from the clean code 0 and equals the code returned
\* when dead code is found.
C7_RootNotFoundReturnsOne ==
    RootNotFoundExit =>
        /\ steps = {} /\ files = {} /\ file_imports = {}
        /\ exit_code = 1
        /\ exit_code # ExitCodeOf(NoReport)

\* C7 witness: main has returned for a missing root beside a tree with files
C7_Witness == RootNotFoundExit /\ DOMAIN fs.files # {} /\ runs = 1

\* the specifier s of file f yields no file of the scanned set
NoTarget(f, s) ==
    LET r == resolve_import_path(fs, root, extOrder, f, s)
    IN r.kind = "none" \/ r.path \notin files

IsExternal(s) == ~StartsWithDot(s) /\ ~StartsWithSlash(s) /\ ~StartsWithAlias(s)

\* C8: after the build every edge joins two scanned files; an external
\* specifier resolves to nothing, and a file whose specifiers are all external,
\* unresolved or resolved outside the scanned set has no outgoing edge.
C8_EdgesWithinScannedSet ==
    Built =>
        /\ \A e \in file_imports : e[1] \in files /\ e[2] \in files
        /\ \A f \in files : \A s \in imports[f] :
              IsExternal(s) => resolve_import_path(fs, root, extOrder, f, s) = None
        /\ \A f \in files :
              (\A s \in imports[f] : NoTarget(f, s)) => ~\E e \in file_imports : e[1] = f

\* C8 witness: page.tsx imports "react", a path that does not exist, and a
\* file of an excluded directory, a file with another extension and a file
\* outside the root that are all on the disk, and has no outgoing edge
C8_Witness ==
    LET page == InRoot(<<"page", "tsx">>) IN
    /\ Built
    /\ page \in files
    /\ {S_react, S_missing, S_nm_x, S_notes, S_outside} \subseteq imports[page]
    /\ resolve_import_path(fs, root, extOrder, page, S_missing) = None
    /\ resolve_import_path(fs, root, extOrder, page, S_nm_x).kind = "path"
    /\ resolve_import_path(fs, root, extOrder, page, S_notes).kind = "path"
    /\ resolve_import_path(fs, root, extOrder, page, S_outside).kind = "path"
    /\ ~\E e \in file_imports : e[1] = page

\* C9 (as claimed): a second run on the unchanged tree yields the same edges
\* and the same unused, orphaned and no-export sets as the first.
C9_RerunSameResult ==
    (Reported /\ prev.valid) => file_imports = prev.edges /\ report = prev.report

\* the files the scanner is specified to return: under the root, with an
\* allowed extension, no denylisted directory between the root and the file
ExpectedScan ==
    {p \in DOMAIN fs.files :
        /\ IsPrefix(root, p) /\ Len(p) > Len(root)
        /\ Suffix(PathName(p)) \in include_extensions
        /\ \A i \in (Len(root) + 1)..(Len(p) - 1) : p[i] \notin exclude_dirs}

\* C10 (as claimed): scan_files returns exactly the files under the root with
\* an allowed extension and no denylisted directory between root and file,
\* wherever the root is.
C10_ScanExact == pc = "scanned" => files = ExpectedScan

\* a read of file f raised during the build
ReadFailed(f) == \E w \in {"imports", "exports"} : <<f, w>> \in read_failed

\* C11 (as claimed): when a read of a scanned file fails the build goes on for
\* the other files, and the file ends with an empty import set and an empty
\* export set, so that it is reported orphaned and never as a file with no
\* exports, although the two sets come from two reads that fail independently.
C11_ReadFailureEmptiesBoth ==
    Built =>
        /\ \A f \in files : ~ReadFailed(f) =>
              /\ imports[f] = parse_imports(fs.files[f])
              /\ exports[f] = parse_exports(fs.files[f])
        /\ \A f \in files : ReadFailed(f) =>
              /\ imports[f] = {} /\ exports[f] = {}
              /\ (Reported /\ ~is_entry_point(f)) =>
                    /\ f \in report.orphaned_files
                    /\ f \notin report.files_with_no_exports

\* the entry points as the claim C12 lists them: a name ending in .test.<ext>
\* or .spec.<ext> for an allowed extension, a name of the two allowlists, or a
\* path with a component named convex
ListedAsEntryPoint(f) ==
    LET name == PathName(f) IN
    \/ name \in entry_patterns \cup config_files
    \/ /\ Len(name) >= 3
       /\ name[Len(name) - 1] \in {"test", "spec"}
       /\ name[Len(name)] \in include_extensions
    \/ \E i \in 1..Len(f) : f[i] = <<"convex">>

\* C12 (as claimed): is_entry_point holds of every scanned file whose name ends
\* in .test.<ext> or .spec.<ext> for each of the six allowed extensions, whose
\* name is in an allowlist, or whose path has a convex component; such a file
\* (foo.test.jsx, foo.spec.mjs) is never reported unused or orphaned.
C12_TestSpecFilesAreEntryPoints ==
    \A f \in files : ListedAsEntryPoint(f) =>
        /\ is_entry_point(f)
        /\ Reported => /\ f \notin report.unused_files
                       /\ f \notin report.orphaned_files

\* C16 (as claimed): for `export { a, b as c }` parse_exports adds each
\* identifier of the braces (a, b, as, c) as an element of its own, and no
\* element of an export set is the untokenised text of the braces (none holds
\* a comma or a blank).
C16_ExportListTokenised ==
    Built =>
        \A f \in files :
            /\ \A e \in exports[f] : Len(e) = 1 /\ e[1] \notin Punctuation
            /\ \A st \in {x \in fs.files[f] : x.kind = "export_list"} :
                  \A i \in 1..Len(st.name) :
                     st.name[i] \notin Punctuation => <<st.name[i]>> \in exports[f]

\* the path p with the extension e appended to its text (p + "." + e)
AppendExt(p, e) ==
    IF p = <<>> THEN << <<"", e>> >> ELSE Append(Front(p), Last(p) \o <<e>>)

\* the candidates of a combined path as the claims list them
WithExtCandidates(p) == {AppendExt(p, e) : e \in include_extensions}

IndexCandidates(p) == {Append(p, <<"index", e>>) : e \in include_extensions}

\* the combined path of a relative or absolute specifier s of file f
CombinedPath(f, s) == JoinResolve(Parent(f), s)

\* the disk as it was before the file of added was created
DiskBefore ==
    LET old == DOMAIN fs.files \ added IN
    [ files |-> [p \in old |-> fs.files[p]],
      dirs |-> Prefixes(Append(root, <<"x">>)) \cup UNION {Prefixes(p) : p \in old} ]

\* C13 (as claimed): if a specifier s of f had no candidate on the disk, and a
\* file g with an allowed extension is then created at a candidate path of s
\* (the combined path with an extension appended, or index.<ext> inside it),
\* the rerun has the edge (f, g) and does not report g unused; s may have a
\* dot in its last component ('./foo.config' and foo.config.ts).
C13_AddedCandidateResolves ==
    (Reported /\ prev.valid /\ added # {}) =>
        \A g \in added : \A f \in files \ {g} : \A s \in imports[f] :
            LET cand == CombinedPath(f, s) IN
            (/\ StartsWithDot(s)
             /\ g \in files
             /\ ~IsFile(DiskBefore, cand)
             /\ \A c \in WithExtCandidates(cand) \cup IndexCandidates(cand) :
                   ~Exists(DiskBefore, c)
             /\ g \in WithExtCandidates(cand) \cup IndexCandidates(cand))
            => /\ <<f, g>> \in file_imports
               /\ g \notin report.unused_files

\* C14 (as claimed): when the combined path of a specifier is not an existing
\* file (nor a directory), the resolver tries the path with each allowed
\* extension appended, keeping a suffix the path already has, and returns no
\* file other than the path with an extension appended.
C14_ExtensionAppended ==
    \A f \in files : \A s \in parse_imports(fs.files[f]) :
        LET cand == CombinedPath(f, s)
            r == resolve_import_path(fs, root, extOrder, f, s)
        IN (StartsWithDot(s) /\ ~IsFile(fs, cand) /\ ~IsDir(fs, cand)) =>
              /\ (\E c \in WithExtCandidates(cand) : Exists(fs, c)) => r.kind = "path"
              /\ r.kind = "path" => r.path \in WithExtCandidates(cand)

\* C15 (as claimed): the resolver returns the first existing candidate in the
\* order exact file, path with extension, index file of the directory, and
\* returns None exactly when no candidate exists.
C15_CandidatePrecedence ==
    \A f \in files : \A s \in parse_imports(fs.files[f]) :
        LET cand == CombinedPath(f, s)
            r == resolve_import_path(fs, root, extOrder, f, s)
            exact == IsFile(fs, cand)
            withExt == {c \in WithExtCandidates(cand) : Exists(fs, c)}
            index == IF IsDir(fs, cand)
                     THEN {c \in IndexCandidates(cand) : Exists(fs, c)} ELSE {}
        IN (StartsWithDot(s) \/ StartsWithSlash(s)) =>
              /\ exact => r = Found(cand)
              /\ (~exact /\ withExt # {}) => (r.kind = "path" /\ r.path \in withExt)
              /\ (~exact /\ withExt = {} /\ index # {}) =>
                    (r.kind = "path" /\ r.path \in index)
              /\ r = None <=> (~exact /\ withExt = {} /\ index = {})

\* the base of an "@/" specifier of file f as the claim C17 gives it: the src
\* directory of the subtree that contains f, or the directory of f when that
\* src directory does not exist
SubtreeSrcBase(f) ==
    LET rel == RelativeTo(f, root)
        src == IF Len(rel) >= 3 /\ rel[1] = <<"apps">> /\ rel[2] \in {<<"web">>, <<"admin">>}
               THEN root \o <<rel[1], rel[2], <<"src">> >>
               ELSE IF Len(rel) >= 3 /\ rel[1] = <<"packages">>
               THEN root \o <<rel[1], rel[2], <<"src">> >>
               ELSE Append(root, <<"src">>)
    IN IF Exists(fs, src) THEN src ELSE Parent(f)

\* C17 (as claimed): an "@/" specifier is resolved, without its prefix, against
\* the src directory of the subtree containing the importing file (apps/web,
\* apps/admin, packages/<pkg>, else the root), or against the file's own
\* directory when that src directory is missing; a helpers.ts found there gets
\* an edge and is not reported unused.
C17_AliasBaseOfSubtree ==
    \A f \in files : \A s \in parse_imports(fs.files[f]) :
        StartsWithAlias(s) =>
            LET r == resolve_import_path(fs, root, extOrder, f, s)
                claimed == ResolveCandidate(fs, extOrder, JoinResolve(SubtreeSrcBase(f), Tail(s)))
            IN /\ r = claimed
               /\ (Built /\ claimed.kind = "path" /\ claimed.path \in files) =>
                     <<f, claimed.path>> \in file_imports
               /\ (Reported /\ claimed.kind = "path") =>
                     claimed.path \notin report.unused_files

\* the (file, specifier) pairs of the scanned set
ExtractedPairs ==
    {p \in files \X UNION {parse_imports(fs.files[g]) : g \in files} :
        p[2] \in parse_imports(fs.files[p[1]])}

\* The resolver is called for a file's own extracted specifiers only, never
\* twice for a pair, and for every pair once the loop has returned
CallsOncePerPair ==
    /\ \A p \in DOMAIN calls : calls[p] = 1 /\ p \in ExtractedPairs
    /\ Built => DOMAIN calls = ExtractedPairs

\* C18: build_dependency_graph ends for every scanned set, cycles and
\* self-imports included: the resolver is called once per (file, extracted
\* specifier) pair, never for the imports of a target file, and the loop
\* started on the scanned set always comes to its end.
C18_BuildTerminatesOncePerPair ==
    /\ []CallsOncePerPair
    /\ (pc = "scanned") ~> (pc \in {"built", "crashed"})

\* a.ts imports itself and b.ts, b.ts imports a.ts, and the build has returned
C18_Witness ==
    /\ Built
    /\ {<<InRoot(<<"a", "ts">>), InRoot(<<"a", "ts">>)>>,
        <<InRoot(<<"a", "ts">>), InRoot(<<"b", "ts">>)>>,
        <<InRoot(<<"b", "ts">>), InRoot(<<"a", "ts">>)>>} \subseteq file_imports
    /\ Cardinality(DOMAIN calls) = 4
    /\ todo = {}

\* C19: in every report the orphaned set and the set of files with no exports
\* are disjoint, their union is the set of the scanned files that are no entry
\* points and have an empty export set, a file with exports is in neither, and
\* the summary counts are the sizes of the three sets and of the scanned set.
C19_OrphanedAndNoExportsPartition ==
    Reported =>
        /\ report.orphaned_files \cap report.files_with_no_exports = {}
        /\ report.orphaned_files \cup report.files_with_no_exports
              = {f \in files : ~is_entry_point(f) /\ exports[f] = {}}
        /\ \A f \in files : exports[f] # {} =>
              /\ f \notin report.orphaned_files
              /\ f \notin report.files_with_no_exports
        /\ report.n_unused = Cardinality(report.unused_files)
        /\ report.n_orphaned = Cardinality(report.orphaned_files)
        /\ report.n_no_exports = Cardinality(report.files_with_no_exports)
        /\ report.total_files = Cardinality(files)

\* a.ts only imports, b.ts exports, c.ts is empty: one file in each class
C19_Witness ==
    /\ Reported
    /\ report.orphaned_files = {InRoot(<<"c", "ts">>)}
    /\ report.files_with_no_exports = {InRoot(<<"a", "ts">>)}
    /\ report.total_files = 3
    /\ InRoot(<<"b", "ts">>) \in files
    /\ exports[InRoot(<<"b", "ts">>)] # {}

====
